---- MODULE Spec2Model ----
(***************************************************************************)
(* fp-clean: the dependency resolver (Runner/resolve.ts), the sequential   *)
(* interpreter (Operation/gen.ts), flatMap (Operation/combinators.ts) and  *)
(* the Runner entry points stream and get, as one state machine.           *)
(*                                                                         *)
(* A run is one Runner invocation.  Its first pull resolves the registry   *)
(* (one action per step of resolve), then the target Operation is pulled   *)
(* one Outcome at a time.  Factories are Operations; a gen-built factory   *)
(* owns the generator object `it` that gen creates once, when the          *)
(* Operation is built, and that every invocation of the Operation shares.  *)
(***************************************************************************)
EXTENDS Integers, Sequences, FiniteSets, TLC

\* ------------------------------------------------------------------ bounds
MaxKeys == 3        \* keys a registry may hold
MaxReads == 2       \* keys one factory reads, in sequence
MaxRuns == 2        \* Runner invocations per behaviour
MaxSteps == 3       \* step Effects in a chain
MaxItems == 2       \* elements a fromIterable step holds
MaxInvocations == 3 \* Sequences created from the composites
MaxTarget == 2      \* Outcomes the target Operation holds

Keys == 1..MaxKeys
Runs == 1..MaxRuns

\* ------------------------------------------------------------------ values
\* The value JavaScript gives a missing property / an unset variable.
Undefined == 0

\* Thrown values and Outcome errors, in one record shape.
\*   "string": a string; key = k when it equals the name of key k, else 0
\*   "Error":  an Error object of the caller's
NoError == [tag |-> "none", key |-> 0, path |-> <<>>]
StringError(k) == [tag |-> "string", key |-> k, path |-> <<>>]
PlainError == [tag |-> "Error", key |-> 0, path |-> <<>>]
CircularDependencyError(path) ==
    [tag |-> "CircularDependencyError", key |-> 0, path |-> path]
DependencyResolutionError ==
    [tag |-> "DependencyResolutionError", key |-> 0, path |-> <<>>]
NoResultError == [tag |-> "NoResult", key |-> 0, path |-> <<>>]
GenInvariantError == [tag |-> "GenInvariantError", key |-> 0, path |-> <<>>]
InvalidRuntime == [tag |-> "InvalidRuntime", key |-> 0, path |-> <<>>]

Ok(v) == [ok |-> TRUE, value |-> v, error |-> NoError]
Err(e) == [ok |-> FALSE, value |-> Undefined, error |-> e]

\* --------------------------------------------------------------- factories
\* A factory is an Operation.  The model's factories read keys from the
\* environment in sequence and then end:
\*   kind   "flat": askFor(d1) |> flatMap(v1 => askFor(d2) |> ... end)
\*          "gen":  gen(function* () { v1 = yield* askFor(d1); ...; end })
\*   reads  the keys d1, d2, ... in the order read
\*   end    "ok": succeed with a value computed from the values read
\*          "none": a last step whose Sequence yields nothing (fromIterable([]))
\*          "err": a last step err(error)
FactoryKinds == {"flat", "gen"}
FactoryEnds == {"ok", "none", "err"}

\* The value a factory computes from the values it read: its own constant
\* plus the values weighted by position, so that a value handed to the wrong
\* position shows in the result.
RECURSIVE Weighted(_)
Weighted(vs) ==
    IF vs = <<>> THEN 0
    ELSE Weighted(SubSeq(vs, 1, Len(vs) - 1)) + (Len(vs) + 1) * vs[Len(vs)]

Combine(key, vs) == key + Weighted(vs)

\* The steps a gen procedure yields: one per read, and the ending step when
\* the procedure does not simply return.
NSteps(f) == Len(f.reads) + (IF f.end = "ok" THEN 0 ELSE 1)

\* A plain object holding the cache: a key not cached reads as undefined.
PlainGet(bp, c, key) ==
    IF key \in DOMAIN c
    THEN [thrown |-> FALSE, value |-> c[key], unknown |-> FALSE]
    ELSE [thrown |-> FALSE, value |-> Undefined, unknown |-> key \notin DOMAIN bp]

\* lazyEnv's get trap against cache c: the cached value, the thrown key, or
\* undefined for a key the blueprint does not hold.  A run of a factory
\* carries in `read` the keys the trap was called with.
LazyEnvGet(bp, c, key) ==
    IF key \in DOMAIN c
    THEN [thrown |-> FALSE, value |-> c[key], unknown |-> FALSE]
    ELSE IF key \in DOMAIN bp
         THEN [thrown |-> TRUE, value |-> Undefined, unknown |-> FALSE]
         ELSE [thrown |-> FALSE, value |-> Undefined, unknown |-> TRUE]

\* The Outcomes of an ending step: err(error), or an empty Sequence.
EndStepOuts(f) == IF f.end = "err" THEN <<Err(f.error)>> ELSE <<>>

\* The Outcomes a flatMap chain yields once every read has succeeded.
EndOuts(key, f, vs) ==
    IF f.end = "ok" THEN <<Ok(Combine(key, vs))>> ELSE EndStepOuts(f)

\* flatMap over askFor steps: every invocation starts from the first read.
RECURSIVE FlatRun(_, _, _, _, _, _)
FlatRun(bp, key, f, c, i, vs) ==
    IF i > Len(f.reads)
    THEN [outs |-> EndOuts(key, f, vs), fault |-> NoError, unknown |-> FALSE,
          read |-> {}]
    ELSE LET g == LazyEnvGet(bp, c, f.reads[i]) IN
         IF g.thrown
         THEN [outs |-> <<>>, fault |-> StringError(f.reads[i]),
               unknown |-> FALSE, read |-> {f.reads[i]}]
         ELSE LET rest == FlatRun(bp, key, f, c, i + 1, Append(vs, g.value)) IN
              [rest EXCEPT !.unknown = @ \/ g.unknown,
                           !.read = @ \cup {f.reads[i]}]

\* gen0: it = body(); run(it.next()).  The generator is created and advanced
\* to its first yield once, when the Operation is built.
InitIt(f) == [pos |-> 0, recv |-> <<>>, done |-> NSteps(f) = 0]

\* it.next(v): the suspended generator takes v as the value of the step it
\* is waiting for and runs to its next yield or to its return; a generator
\* that already returned answers {done: true, value: undefined}.
ItNext(key, f, it, v) ==
    IF it.done
    THEN [it |-> it, done |-> TRUE, value |-> Undefined]
    ELSE LET recv == Append(it.recv, v)
             pos == it.pos + 1
         IN IF pos >= NSteps(f)
            THEN [it |-> [pos |-> pos, recv |-> recv, done |-> TRUE],
                  done |-> TRUE,
                  value |-> Combine(key, SubSeq(recv, 1, Len(f.reads)))]
            ELSE [it |-> [pos |-> pos, recv |-> recv, done |-> FALSE],
                  done |-> FALSE, value |-> Undefined]

\* The Operation a procedure yields as its step i, invoked against lazyEnv.
StepOp(bp, f, i, c) ==
    IF i <= Len(f.reads)
    THEN LET g == LazyEnvGet(bp, c, f.reads[i]) IN
         IF g.thrown
         THEN [outs |-> <<>>, fault |-> StringError(f.reads[i]),
               unknown |-> FALSE, read |-> {f.reads[i]}]
         ELSE [outs |-> <<Ok(g.value)>>, fault |-> NoError,
               unknown |-> g.unknown, read |-> {f.reads[i]}]
    ELSE [outs |-> EndStepOuts(f), fault |-> NoError, unknown |-> FALSE,
          read |-> {}]

\* run(st) for a st that yielded step cur: drive the step; on its success
\* resume the shared generator with the value and continue with what the
\* generator answers.
RECURSIVE GenRun(_, _, _, _, _, _)
GenRun(bp, key, f, it, cur, c) ==
    LET s == StepOp(bp, f, cur, c) IN
    IF s.fault # NoError \/ s.outs = <<>> \/ ~s.outs[1].ok
    THEN [outs |-> s.outs, fault |-> s.fault, it |-> it, unknown |-> s.unknown,
          read |-> s.read]
    ELSE LET n == ItNext(key, f, it, s.outs[1].value) IN
         IF n.done
         THEN [outs |-> <<Ok(n.value)>>, fault |-> NoError, it |-> n.it,
               unknown |-> s.unknown, read |-> s.read]
         ELSE LET rest == GenRun(bp, key, f, n.it, n.it.pos + 1, c) IN
              [rest EXCEPT !.unknown = @ \/ s.unknown,
                           !.read = @ \cup s.read]

\* factory(lazyEnv)() driven to its end: the Outcomes it yields, the value
\* it throws (NoError when it ends normally), the generator it leaves.
FactoryRun(bp, key, it, c) ==
    LET f == bp[key] IN
    IF f.kind = "gen" /\ NSteps(f) > 0
    THEN GenRun(bp, key, f, it, 1, c)
    ELSE LET r == FlatRun(bp, key, f, c, 1, <<>>) IN
         [outs |-> r.outs, fault |-> r.fault, it |-> it, unknown |-> r.unknown,
          read |-> r.read]

\* for await (const res of factory(lazyEnv)()) { if (!res.ok) throw res.error;
\* result = res.value }: what the loop throws, and the result it leaves.
FailIdx(outs) ==
    IF \E i \in 1..Len(outs) : ~outs[i].ok
    THEN CHOOSE i \in 1..Len(outs) :
             ~outs[i].ok /\ \A j \in 1..(i - 1) : outs[j].ok
    ELSE 0

LoopThrown(run) ==
    IF FailIdx(run.outs) # 0 THEN run.outs[FailIdx(run.outs)].error
    ELSE run.fault

LoopResult(run) ==
    IF run.outs = <<>> THEN Undefined ELSE run.outs[Len(run.outs)].value

\* ---------------------------------------------------------------- registry
\* Sequences of distinct keys a factory may read.
ReadSeqs ==
    UNION {{s \in [1..n -> Keys] : \A i, j \in 1..n : i # j => s[i] # s[j]} :
           n \in 0..MaxReads}

ErrorValues == {PlainError} \cup {StringError(k) : k \in Keys}

\* gen over a procedure that yields nothing is ok(value): it is left to
\* the "flat" kind.
Factories ==
    {f \in [kind : FactoryKinds, reads : ReadSeqs, end : FactoryEnds,
            error : ErrorValues \cup {NoError}] :
        /\ f.end = "err" <=> f.error # NoError
        /\ f.kind = "gen" => NSteps(f) > 0}

\* The factories that fit what is left of the registry's allowance of reads,
\* gen factories and factories that do not end in success.
FactoriesWithin(reads, gens, bad) ==
    {f \in Factories :
        /\ Len(f.reads) <= reads
        /\ f.kind = "gen" => gens > 0
        /\ f.end # "ok" => bad > 0}

\* Context.empty() extended by provide(tag, operation) for the keys 1..n:
\* services maps each provided key to its factory.
RECURSIVE Provided(_, _, _, _)
Provided(n, reads, gens, bad) ==
    IF n = 0 THEN {<<>>}
    ELSE UNION {{Append(bp, f) :
                    bp \in Provided(n - 1, reads - Len(f.reads),
                                    gens - (IF f.kind = "gen" THEN 1 ELSE 0),
                                    bad - (IF f.end # "ok" THEN 1 ELSE 0))} :
                f \in FactoriesWithin(reads, gens, bad)}

Registries(maxKeys, maxReads, maxGen, maxBad) ==
    UNION {Provided(n, maxReads, maxGen, maxBad) : n \in 0..maxKeys}

\* Object.keys(blueprint): the keys in the order they were provided.
RECURSIVE Ascending(_)
Ascending(n) == IF n = 0 THEN <<>> ELSE Append(Ascending(n - 1), n)

KeyOrders(n) ==
    {s \in [1..n -> 1..n] : \A i, j \in 1..n : i # j => s[i] # s[j]}

\* ------------------------------------------------------------------ target
\* The target Operation handed to the Runner: the Outcomes its Sequence
\* holds, and whether the Sequence then ends or throws a fault.
TargetOuts ==
    UNION {[1..n -> {"ok", "err"}] : n \in 0..MaxTarget}

Targets == {[outs |-> o, fin |-> f] : o \in TargetOuts, f \in {"end", "fault"}}

\* The fault a target throws when its Sequence ends in one: the defect of a
\* gen composite whose step produced a second value.
TargetFault(t) == GenInvariantError

\* The i-th Outcome of target t: a success carries its position.
TargetOutcome(t, i) == IF t.outs[i] = "ok" THEN Ok(i) ELSE Err(PlainError)

\* ------------------------------------------------------------------- steps
\* A chain of step Effects, each built by one of the library's constructors:
\*   ok(1), err(e), signal(), or fromIterable over an iterable of `items`
\*   elements 1..items that then ends, or throws when `throws`.
\* The flat composite is step1 |> flatMap(v1 => step2 |> flatMap(v2 => ...
\* ok(Combine(0, <<v1, v2, ...>>)))); the gen composite is
\* gen(function* () { v1 = yield* step1; v2 = yield* step2; ...;
\* return Combine(0, <<v1, v2, ...>>) }).
StepCtors == {"ok", "err", "signal", "fromIterable"}

Steps ==
    {st \in [ctor : StepCtors, items : 0..MaxItems, throws : BOOLEAN] :
        st.ctor # "fromIterable" => (st.items = 0 /\ ~st.throws)}

Chains == UNION {[1..n -> Steps] : n \in 0..MaxSteps}

\* Result.ok(x) for the elements 1..n of an iterable, in order.
RECURSIVE Elements(_)
Elements(n) == IF n = 0 THEN <<>> ELSE Append(Elements(n - 1), Ok(n))

\* step(r)() for an Environment r that carries a Runtime Handle or not: the
\* fault thrown when the step is invoked, and the Outcomes of its Sequence.
StepSeq(st, hasRt) ==
    CASE st.ctor = "ok" -> [fault |-> NoError, outs |-> <<Ok(1)>>]
      [] st.ctor = "err" -> [fault |-> NoError, outs |-> <<Err(PlainError)>>]
      [] st.ctor = "signal" ->
            IF hasRt THEN [fault |-> NoError, outs |-> <<Ok(1)>>]
            ELSE [fault |-> InvalidRuntime, outs |-> <<>>]
      [] st.ctor = "fromIterable" ->
            IF hasRt
            THEN [fault |-> NoError,
                  outs |-> Elements(st.items) \o
                           (IF st.throws THEN <<Err(PlainError)>> ELSE <<>>)]
            ELSE [fault |-> NoError, outs |-> <<Err(InvalidRuntime)>>]

\* The procedure of the gen composite over chain ch, as the generator sees
\* it: one yield per step, then the return of the combined value.
Procedure(ch) ==
    [kind |-> "gen", reads |-> [i \in 1..Len(ch) |-> i], end |-> "ok",
     error |-> NoError]

\* What a Sequence of a composite has logged: the steps invoked, the
\* Outcomes the steps gave, the continuations called, the Outcomes yielded.
Event(e, step, out) == [e |-> e, step |-> step, out |-> out]

\* -------------------------------------------------------------- procedures
\* gen over a procedure of the caller's.  The procedure yields its steps in
\* turn, and may throw in one of its segments: segment 0 runs when the
\* generator is started, segment j when it is resumed with the value of
\* step j.  A step is an Operation invoked against the Environment: the
\* fault its invocation throws, and the Outcomes of its Sequence.
\*   ret   "combine": return Combine(0, <<v1, v2, ...>>)
\*         "last":    return the value the last step gave
MaxYields == 2      \* steps a procedure yields
MaxSequences == 2   \* Sequences created from one composite

NoThrow == MaxYields + 1

StepOps == {StepSeq(st, h) : st \in Steps, h \in BOOLEAN}

\* What the procedure throws: a value of its own, no step's error.
BodyError == StringError(0)

Bodies ==
    UNION {[steps : [1..n -> StepOps], throwAt : (0..n) \cup {NoThrow},
            error : {BodyError}, ret : {"combine"}] : n \in 0..MaxYields}

\* The value the procedure returns once it has received recv.
BodyReturn(b, recv) ==
    IF b.ret = "last" /\ recv # <<>> THEN recv[Len(recv)] ELSE Combine(0, recv)

\* it.next(v) on the procedure's generator: it runs the segment after the
\* yield it is suspended at, to the next yield, the return, or a throw.  A
\* generator that returned or threw is finished and answers
\* {done: true, value: undefined}.
BodyNext(b, it, v) ==
    IF it.done
    THEN [it |-> it, done |-> TRUE, value |-> Undefined, thrown |-> NoError]
    ELSE LET recv == Append(it.recv, v)
             pos == it.pos + 1
         IN IF b.throwAt = pos
            THEN [it |-> [pos |-> pos, recv |-> recv, done |-> TRUE],
                  done |-> TRUE, value |-> Undefined, thrown |-> b.error]
            ELSE IF pos >= Len(b.steps)
            THEN [it |-> [pos |-> pos, recv |-> recv, done |-> TRUE],
                  done |-> TRUE, value |-> BodyReturn(b, recv),
                  thrown |-> NoError]
            ELSE [it |-> [pos |-> pos, recv |-> recv, done |-> FALSE],
                  done |-> FALSE, value |-> Undefined, thrown |-> NoError]

\* gen0: it = body(); return run(it.next()), or err(e) when that throws.
\* The Operation it returns is err(e), ok(value), or the run of the first
\* step the procedure yielded.
Gen0(b) ==
    IF b.throwAt = 0
    THEN [op |-> [kind |-> "err", error |-> b.error, value |-> Undefined],
          it |-> [pos |-> 0, recv |-> <<>>, done |-> TRUE]]
    ELSE IF Len(b.steps) = 0
    THEN [op |-> [kind |-> "ok", error |-> NoError,
                  value |-> BodyReturn(b, <<>>)],
          it |-> [pos |-> 0, recv |-> <<>>, done |-> TRUE]]
    ELSE [op |-> [kind |-> "run", error |-> NoError, value |-> Undefined],
          it |-> [pos |-> 0, recv |-> <<>>, done |-> FALSE]]

\* A Sequence iterated to its end: the Outcomes it yielded, the fault it
\* threw, the generator as it left it, the steps invoked and the throws of
\* the procedure in order, and whether its generator function returned
\* early.
NoSequence ==
    [st |-> "none", outs |-> <<>>, fault |-> NoError, log |-> <<>>,
     halt |-> FALSE]

\* The fault leaves the Sequence uncaught.
Escapes(acc, e) ==
    [acc EXCEPT !.fault = e, !.halt = TRUE]

\* catch (e) { yield* err(e)(r)(); return; }
Caught(acc, e) ==
    [acc EXCEPT !.outs = Append(@, Err(e)), !.halt = TRUE]

RECURSIVE RunLoop(_, _, _, _, _)
RECURSIVE Run(_, _, _)

\* run(st) for the step cur the procedure yielded, invoked and iterated:
\* yielded(r)() and the for await loop over it.
Run(b, cur, acc) ==
    LET s == b.steps[cur]
        invoked == [acc EXCEPT !.log = Append(@, Event("invoke", cur, Ok(Undefined)))]
    IN IF s.fault # NoError
       THEN Escapes(invoked, s.fault)
       ELSE RunLoop(b, cur, 1, FALSE, invoked)

\* The loop body for the i-th Outcome of step cur.
RunLoop(b, cur, i, seen, acc) ==
    LET outs == b.steps[cur].outs IN
    IF i > Len(outs) THEN acc
    ELSE IF ~outs[i].ok
    THEN [acc EXCEPT !.outs = Append(@, outs[i]), !.halt = TRUE]
    ELSE IF seen THEN Escapes(acc, GenInvariantError)
    ELSE LET n == BodyNext(b, acc.it, outs[i].value)
             resumed == [acc EXCEPT !.it = n.it]
         IN IF n.thrown # NoError
            THEN Caught([resumed EXCEPT
                            !.log = Append(@, Event("throw", cur, Err(n.thrown)))],
                        n.thrown)
            ELSE LET inner == IF n.done
                              THEN [resumed EXCEPT !.outs = Append(@, Ok(n.value))]
                              ELSE Run(b, n.it.pos + 1, resumed)
                 IN IF inner.halt THEN inner
                    ELSE RunLoop(b, cur, i + 1, TRUE, inner)

\* composite(env)() iterated to its end, the generator standing at it.
Iterate(b, g, it) ==
    LET fresh == [st |-> "ended", outs |-> <<>>, fault |-> NoError,
                  log |-> <<>>, halt |-> FALSE, it |-> it]
    IN CASE g.kind = "err" -> [fresh EXCEPT !.outs = <<Err(g.error)>>]
         [] g.kind = "ok" -> [fresh EXCEPT !.outs = <<Ok(g.value)>>]
         [] OTHER -> Run(b, 1, fresh)


\* ---------------------------------------------------------- Service facade
\* What the proxy's procedure finds under service[methodKey]:
\*   "number": a property that is no function
\*   "effect": an Operation
\*   "method": a plain function that, called with the arguments, returns the
\*             Operation `effect` (returns = "effect") or the plain value
\*             `value` (returns = "value")
\* The Operations held or returned are built by ok, err or fromIterable,
\* which do not read the Environment when they are applied to it.
MemberKinds == {"number", "effect", "method"}
PlainValues == 1..MaxItems
MemberEffects == {StepSeq(st, TRUE) : st \in {s \in Steps : s.ctor # "signal"}}

Members ==
    {mb \in [kind : MemberKinds, returns : {"effect", "value"},
             effect : MemberEffects, value : PlainValues] :
        /\ mb.kind = "number" =>
               (mb.returns = "value" /\ mb.value = 1 /\ mb.effect = StepSeq(
                    [ctor |-> "ok", items |-> 0, throws |-> FALSE], TRUE))
        /\ mb.kind = "effect" => (mb.returns = "effect" /\ mb.value = 1)
        /\ (mb.kind = "method" /\ mb.returns = "effect") => mb.value = 1
        /\ (mb.kind = "method" /\ mb.returns = "value") =>
               mb.effect = StepSeq([ctor |-> "ok", items |-> 0, throws |-> FALSE],
                                   TRUE)}

\* The value askFor(tag) gives: the service instance.
ServiceValue == 1

\* An Operation applied to one argument: the function () => AsyncGenerator
\* that asOperation's rsr returns, which is no Operation.
Thunk == -1

\* new Error(`Service property '${methodKey}' is not a function. ...`)
NotAFunctionError ==
    [tag |-> "Error: Service property is not a function", key |-> 0,
     path |-> <<>>]

\* What JavaScript throws when a value that is no function is called.
TypeError == [tag |-> "TypeError", key |-> 0, path |-> <<>>]

\* ok(v) invoked.
OkSeq(v) == [fault |-> NoError, outs |-> <<Ok(v)>>]

\* method.apply(service, args) for a member that is a function, and what
\* the procedure yields for its result: the result when isOperation(result),
\* else ok(result).
Applied(mb) ==
    IF mb.kind = "effect" THEN OkSeq(Thunk)
    ELSE IF mb.returns = "effect" THEN mb.effect
    ELSE OkSeq(mb.value)

\* The procedure the proxy hands to gen: service = yield* askFor(tag); throw
\* when typeof method !== "function"; else return yield* the applied result.
FacadeBody(mb) ==
    IF mb.kind = "number"
    THEN [steps |-> <<OkSeq(ServiceValue)>>, throwAt |-> 1,
          error |-> NotAFunctionError, ret |-> "last"]
    ELSE [steps |-> <<OkSeq(ServiceValue), Applied(mb)>>, throwAt |-> NoThrow,
          error |-> NotAFunctionError, ret |-> "last"]

\* svc => svc.method(args), invoked as f(res.value)(r)(): the Sequence of the
\* Operation the method returns; a TypeError when the member is no function,
\* or when what the call returns is no Operation.
ManualStep(mb) ==
    IF mb.kind = "method" /\ mb.returns = "effect" THEN mb.effect
    ELSE [fault |-> TypeError, outs |-> <<>>]

\* What a combinator's Sequence did, iterated to its end: the Outcomes
\* yielded, the fault thrown after them, the arguments its callback was
\* called with.
SeqStart == [outs |-> <<>>, fault |-> NoError, calls |-> <<>>, halt |-> FALSE]

\* for await (const innerRes of f(x)(r)()) { yield innerRes;
\*   if (!innerRes.ok) return; }
RECURSIVE Splice(_, _, _)
Splice(inner, j, acc) ==
    IF j > Len(inner.outs)
    THEN IF inner.fault # NoError
         THEN [acc EXCEPT !.fault = inner.fault, !.halt = TRUE]
         ELSE acc
    ELSE LET yielded == [acc EXCEPT !.outs = Append(@, inner.outs[j])] IN
         IF ~inner.outs[j].ok THEN [yielded EXCEPT !.halt = TRUE]
         ELSE Splice(inner, j + 1, yielded)

\* flatMap(f)(fa)(r)() iterated to its end, f given as the Sequence f[v] of
\* the Effect it returns for the value v.
RECURSIVE FlatMapLoop(_, _, _, _)
FlatMapLoop(fa, f, i, acc) ==
    IF i > Len(fa.outs)
    THEN IF fa.fault # NoError
         THEN [acc EXCEPT !.fault = fa.fault, !.halt = TRUE]
         ELSE acc
    ELSE IF ~fa.outs[i].ok
    THEN [acc EXCEPT !.outs = Append(@, fa.outs[i]), !.halt = TRUE]
    ELSE LET called == [acc EXCEPT !.calls = Append(@, fa.outs[i].value)]
             spliced == Splice(f[fa.outs[i].value], 1, called)
         IN IF spliced.halt THEN spliced
            ELSE FlatMapLoop(fa, f, i + 1, spliced)

FlatMap(fa, f) == FlatMapLoop(fa, f, 1, SeqStart)

\* flatMap(svc => svc.method(args))(askFor(key)) iterated to its end.
Manual(mb) ==
    FlatMap(OkSeq(ServiceValue), [v \in {ServiceValue} |-> ManualStep(mb)])

\* ------------------------------------------------------------- combinators
\* orElse, map and mapErr over any source: an Effect whose Sequence holds up
\* to MaxOutcomes Outcomes in any order, failures included anywhere.
MaxOutcomes == 2    \* Outcomes a source or a recovery Effect holds

SourceErrors == {PlainError, StringError(0)}
SourceOutcomes == {Ok(v) : v \in 1..MaxItems} \cup {Err(e) : e \in SourceErrors}
Sources ==
    UNION {[fault : {NoError}, outs : [1..n -> SourceOutcomes]] :
               n \in 0..MaxOutcomes}

\* The recovery Effects f(e) of orElse: their successes and their failure
\* are no Outcome of a source.
RecoveryError == DependencyResolutionError
RecoveryOutcomes == {Ok(MaxItems + 1), Err(RecoveryError)}
Recoveries ==
    [SourceErrors ->
        UNION {[fault : {NoError}, outs : [1..n -> RecoveryOutcomes]] :
                   n \in 0..MaxOutcomes}]

\* err(e) invoked.
ErrSeq(e) == [fault |-> NoError, outs |-> <<Err(e)>>]

\* The functions handed to map and mapErr in the tests: x => x * 2 and
\* e => e.toUpperCase().
Double(v) == v * 2
UpperCase(e) == [tag |-> "UPPER", key |-> e.key, path |-> <<e.tag>>]

\* orElse(f)(fa)(r)() iterated to its end, f given as the Sequence f[e] of the
\* Effect it returns for the error e.
RECURSIVE OrElseLoop(_, _, _, _)
OrElseLoop(fa, f, i, acc) ==
    IF i > Len(fa.outs)
    THEN IF fa.fault # NoError
         THEN [acc EXCEPT !.fault = fa.fault, !.halt = TRUE]
         ELSE acc
    ELSE IF fa.outs[i].ok
    THEN OrElseLoop(fa, f, i + 1, [acc EXCEPT !.outs = Append(@, fa.outs[i])])
    ELSE LET called == [acc EXCEPT !.calls = Append(@, fa.outs[i].error)]
             spliced == Splice(f[fa.outs[i].error], 1, called)
         IN IF spliced.halt THEN spliced
            ELSE OrElseLoop(fa, f, i + 1, spliced)

\* The source's Sequence handed on as it is, f never called.
PassThrough(fa, f) == [SeqStart EXCEPT !.outs = fa.outs, !.fault = fa.fault]

OrElse(fa, f) == OrElseLoop(fa, f, 1, SeqStart)

\* The success values and the errors a Sequence holds.
ValuesOf(fa) == {fa.outs[i].value : i \in {j \in 1..Len(fa.outs) : fa.outs[j].ok}}
ErrorsOf(fa) == {fa.outs[i].error : i \in {j \in 1..Len(fa.outs) : ~fa.outs[j].ok}}

\* flatMap((a) => ok(a)): f is not applied.
Unmapped(fa) == FlatMap(fa, [v \in ValuesOf(fa) |-> OkSeq(v)])

\* map(f)(fa) = flatMap((a) => ok(f(a)))(fa)
Map(fa) == FlatMap(fa, [v \in ValuesOf(fa) |-> OkSeq(Double(v))])

\* mapErr(f)(o) = orElse((error) => err(f(error)))(o)
MapErr(fa) == OrElse(fa, [e \in ErrorsOf(fa) |-> ErrSeq(UpperCase(e))])

\* tap(f)(fa) = flatMap((a) => { f(a); return ok(a) })(fa): the calls of the
\* continuation are the calls of f.
Tap(fa) == FlatMap(fa, [v \in ValuesOf(fa) |-> OkSeq(v)])

\* tapErr(f)(fa) = orElse((e) => { f(e); return err(e) })(fa)
TapErr(fa) == OrElse(fa, [e \in ErrorsOf(fa) |-> ErrSeq(e)])

Transformers == {"orElse", "map", "mapErr"}
Observers == {"tap", "tapErr"}
Combinators == Transformers \cup Observers

\* ---------------------------------------------------------------- contexts
\* Context.empty() and the Contexts derived from it by provide.
MaxContexts == 3    \* Contexts derived by provide in one behaviour

\* The Operations provided, two factories that read nothing: a factory is
\* opaque to provide.
ProvidedOps ==
    {[kind |-> "flat", reads |-> <<>>, end |-> e, error |-> NoError] :
        e \in {"ok", "none"}}

\* A services object is the sequence of its properties, in the order
\* Object.keys gives them, each [key, operation].
\* Context.empty().services
EmptyServices == <<>>

HasKey(obj, key) == \E j \in 1..Len(obj) : obj[j].key = key
Lookup(obj, key) == obj[CHOOSE j \in 1..Len(obj) : obj[j].key = key].operation

\* { ...obj }: a fresh object holding obj's own properties in their order.
Spread(obj) == obj

\* { ..., [key]: operation }: a property already there keeps its place and
\* takes the new value, a new one goes last.
Assign(obj, key, operation) ==
    IF HasKey(obj, key)
    THEN [j \in 1..Len(obj) |->
             IF obj[j].key = key THEN [key |-> key, operation |-> operation]
             ELSE obj[j]]
    ELSE Append(obj, [key |-> key, operation |-> operation])

\* provide(tag, operation)(self).services
Extended(self, key, operation) == Assign(Spread(self), key, operation)

\* The object literal written into the object it was spread from.
SameContext(heap, i, obj) == Append([heap EXCEPT ![i] = obj], obj)

\* ({ services: {...} }): the object literal makes a new object.
NewContext(heap, i, obj) == Append(heap, obj)

\* ------------------------------------------------------------------- state
VARIABLES
    services,     \* ctx.services: provided key -> factory
    op,           \* the target Operation
    its,          \* its[b][k]: the generator of gen factory k in registry build b
    build,        \* build[r]: the registry build run r was handed
    keys,         \* keys[r]: Object.keys(blueprint) of run r's registry
    mode,         \* mode[r]: "none", or the entry point called: "stream" | "get"
    pc,           \* pc[r]: where the stream generator of run r stands
    gpc,          \* gpc[r]: where get stands: "none" | "next" | "returning" | "settled"
    idx,          \* idx[r]: position of resolve's loop over Object.keys
    frames,       \* frames[r]: the runFactory calls in progress, innermost last
    stack,        \* stack[r]: resolve's `stack` set, in insertion order
    cache,        \* cache[r]: resolve's `cache` map
    res,          \* res[r]: the Outcome resolve yielded
    rt,           \* rt[r]: the Runtime Handle: "none" | "live" | "aborted"
    tpos,         \* tpos[r]: elements pulled from the target's Sequence
    delivered,    \* delivered[r]: the Outcomes the stream yielded to its caller
    result,       \* result[r]: how get's promise settled
    thrown,       \* thrown[r]: the fault the stream generator threw to its caller
    returned,     \* returned[r]: the caller called return() on the stream generator
    readUnknown,  \* readUnknown[r]: a factory of run r read a key outside the blueprint
    attempts,     \* attempts[r][k]: passes of key k's restart loop in run r: keys thrown, keys read, values yielded
    chain,        \* the step Effects the two composites are built over
    hasRuntime,   \* the Environment the composites are invoked against carries a Runtime Handle
    built,        \* the composites constructed so far: "flat", "gen"
    genIt,        \* the generator the gen composite made when it was constructed
    worked,       \* the composites whose user code (procedure body, callbacks) has run
    inv,          \* inv[k]: the k-th Sequence created from a composite
    body,         \* the procedure handed to gen
    genOp,        \* the Operation gen0 returned for it
    bodyIt,       \* the generator gen0 made from the procedure
    seqs,         \* seqs[k]: the k-th Sequence of that Operation, iterated to its end
    bulk,         \* the bulk iteration Effect: fromIterable(it) or fromAsyncIterable(it)
    handle,       \* the Runtime Handle of the Environment it is invoked against
    bulkSeq,      \* the Sequence of the bulk iteration Effect
    member,       \* what the service holds under the name called on the facade
    manual,       \* the Sequence of flatMap(svc => svc.method(args))(askFor(key))
    source,       \* the Sequence of the Effect the combinators are applied to
    recover,      \* recover[e]: the Sequence of the Effect orElse's f returns for e
    applied,      \* applied[c]: the Sequence of combinator c over the source, iterated to its end
    contexts      \* contexts[i]: the services object of the i-th Context created

vars == <<services, op, its, build, keys, mode, pc, gpc, idx, frames, stack,
          cache, res, rt, tpos, delivered, result, thrown, returned,
          readUnknown, attempts, chain, hasRuntime, built, genIt, worked, inv,
          body, genOp, bodyIt, seqs, bulk, handle, bulkSeq, member, manual,
          source, recover, applied, contexts>>

runnerVars == <<services, op, its, build, keys, mode, pc, gpc, idx, frames,
                stack, cache, res, rt, tpos, delivered, result, thrown,
                returned, readUnknown, attempts>>

effectVars == <<chain, hasRuntime, built, genIt, worked, inv>>

procVars == <<body, genOp, bodyIt, seqs>>

bulkVars == <<bulk, handle, bulkSeq>>

facadeVars == <<member, manual>>

combVars == <<source, recover, applied>>

ctxVars == <<contexts>>

benchVars == <<procVars, bulkVars, facadeVars, combVars, ctxVars>>

Invocations == 1..MaxInvocations

\* A Sequence not created yet.
NoInvocation ==
    [kind |-> "none", st |-> "none", frames |-> <<>>, outs |-> <<>>,
     fault |-> NoError, log |-> <<>>]

resolverVars == <<idx, frames, stack, cache, res, its, readUnknown, attempts>>

\* The passes of one key's restart loop: how many times factory(lazyEnv)() was
\* started, counted up to one more than the registry holds keys (a loop that
\* never ends is counted no further), the blueprint keys the passes threw,
\* and for the last pass the keys it read from lazyEnv and the values of the
\* success Outcomes it yielded.
AttemptCap == Cardinality(DOMAIN services) + 1
NoAttempt == [n |-> 0, missed |-> {}, read |-> {}, values |-> {}]
Attempted(a, e, run) ==
    [n |-> IF a.n < AttemptCap THEN a.n + 1 ELSE a.n,
     missed |-> IF e.tag = "string" /\ e.key \in DOMAIN services
                THEN a.missed \cup {e.key} ELSE a.missed,
     read |-> run.read,
     values |-> {run.outs[i].value :
                    i \in {j \in 1..Len(run.outs) : run.outs[j].ok}}]

NoRes == [state |-> "none", env |-> <<>>, error |-> NoError]
NoResult == [state |-> "none", value |-> Ok(Undefined), error |-> NoError]

\* No composite is built: the Runner is driven on its own.
EffectIdle ==
    /\ chain = <<>>
    /\ hasRuntime = TRUE
    /\ built = {}
    /\ genIt = InitIt(Procedure(<<>>))
    /\ worked = {}
    /\ inv = [k \in Invocations |-> NoInvocation]

\* No procedure is handed to gen.
NoBody ==
    [steps |-> <<>>, throwAt |-> NoThrow, error |-> BodyError, ret |-> "combine"]
NoGenOp == [kind |-> "none", error |-> NoError, value |-> Undefined]
Sequences == 1..MaxSequences

ProcIdle ==
    /\ body = NoBody
    /\ genOp = NoGenOp
    /\ bodyIt = InitIt(Procedure(<<>>))
    /\ seqs = [k \in Sequences |-> NoSequence]

\* A bulk iteration Effect over an iterable that holds the elements
\* 1..items and then ends, or throws when `throws`.
BulkCtors == {"fromIterable", "fromAsyncIterable"}
BulkEffects == [ctor : BulkCtors, items : 0..MaxItems, throws : BOOLEAN]

\* Its Sequence: where the generator stands, the elements taken from the
\* iterable, the Outcomes yielded, and the Outcomes that had been yielded
\* when the handle was aborted.
NoBulkSeq ==
    [st |-> "none", pos |-> 0, outs |-> <<>>, aborted |-> FALSE,
     before |-> <<>>]

BulkIdle ==
    /\ bulk = [ctor |-> "fromIterable", items |-> 0, throws |-> FALSE]
    /\ handle = "none"
    /\ bulkSeq = NoBulkSeq

\* No facade is called.
NoManual == [st |-> "none", outs |-> <<>>, fault |-> NoError]

FacadeIdle ==
    /\ member = [kind |-> "number", returns |-> "value", effect |-> OkSeq(1),
                 value |-> 1]
    /\ manual = NoManual

\* No combinator is applied.
NoApplied ==
    [st |-> "none", outs |-> <<>>, fault |-> NoError, calls |-> <<>>]

CombIdle ==
    /\ source = [fault |-> NoError, outs |-> <<>>]
    /\ recover = [e \in SourceErrors |-> [fault |-> NoError, outs |-> <<>>]]
    /\ applied = [c \in Combinators |-> NoApplied]

\* No Context is created.
CtxIdle == contexts = <<>>

BenchIdle == ProcIdle /\ BulkIdle /\ FacadeIdle /\ CombIdle /\ CtxIdle

InitWith(registries, targets) ==
    /\ EffectIdle
    /\ BenchIdle
    /\ services \in registries
    /\ op \in targets
    /\ its = [b \in Runs |-> [k \in DOMAIN services |-> InitIt(services[k])]]
    /\ build = [r \in Runs |-> 1]
    /\ keys = [r \in Runs |-> <<>>]
    /\ mode = [r \in Runs |-> "none"]
    /\ pc = [r \in Runs |-> "idle"]
    /\ gpc = [r \in Runs |-> "none"]
    /\ idx = [r \in Runs |-> 1]
    /\ frames = [r \in Runs |-> <<>>]
    /\ stack = [r \in Runs |-> <<>>]
    /\ cache = [r \in Runs |-> <<>>]
    /\ res = [r \in Runs |-> NoRes]
    /\ rt = [r \in Runs |-> "none"]
    /\ tpos = [r \in Runs |-> 0]
    /\ delivered = [r \in Runs |-> <<>>]
    /\ result = [r \in Runs |-> NoResult]
    /\ thrown = [r \in Runs |-> NoError]
    /\ returned = [r \in Runs |-> FALSE]
    /\ readUnknown = [r \in Runs |-> FALSE]
    /\ attempts = [r \in Runs |-> [k \in DOMAIN services |-> NoAttempt]]

\* ----------------------------------------------------------------- helpers
InSeq(s, x) == \E i \in 1..Len(s) : s[i] = x
\* A stack that keeps a key whose factory completed.
Kept(s, x) == s

Without(s, x) == SelectSeq(s, LAMBDA y : y # x)
Top(r) == frames[r][Len(frames[r])]
Popped(r) == SubSeq(frames[r], 1, Len(frames[r]) - 1)
Frame(key) == [key |-> key, pc |-> "enter", restarted |-> FALSE]

\* A run is over: its stream generator completed and, for get, the promise
\* settled.
Finished(r) ==
    /\ pc[r] = "done"
    /\ mode[r] = "get" => gpc[r] = "settled"

\* A controller whose signal is aborted from the start.
AbortedRuntime == "aborted"

\* createRuntime(): new AbortController(), its signal not aborted.
CreateRuntime == "live"

\* A stream that leaves its handle as it is when it completes.
KeepsHandle(h) == h

\* finally { controller.abort("Stream terminated") }
Finally(h) == "aborted"

\* A flatMap that goes on pulling after a failure Outcome.
NeverStops(out) == TRUE

\* flatMap: after yielding Outcome out, go on pulling only when it was a
\* success (if (!innerRes.ok) return).
ContinuesAfter(out) == out.ok

\* A loop over the keys that ends after the first key.
FirstKeyVisited(r) == idx[r] > Len(keys[r]) \/ idx[r] > 1

\* resolve's loop over Object.keys(blueprint) has visited every key.
AllKeysVisited(r) == idx[r] > Len(keys[r])

\* A get that returns what it.next() gave without looking at it.
FirstUnchecked(outs) ==
    [state |-> "fulfilled",
     value |-> IF outs = <<>> THEN Ok(Undefined) ELSE outs[1],
     error |-> NoError]

\* const { value, done } = await it.next(); if (done || !value) throw new
\* Error("Operation completed without yielding a result."); return value
FirstOrThrow(outs) ==
    IF outs = <<>>
    THEN [state |-> "rejected", value |-> Ok(Undefined), error |-> NoResultError]
    ELSE [state |-> "fulfilled", value |-> outs[1], error |-> NoError]

\* A get that settles without awaiting it.return().
SettlesAtOnce(r) == TRUE

\* get's finally block has awaited it.return(): the promise may settle.
GetMaySettle(r) == gpc[r] = "returning"

\* ----------------------------------------------------------------- actions
\* stream(op, ctx) or get(op, ctx) is called on the registry as provided.
\* get calls stream and awaits the generator's first next().
Call(r, m) ==
    /\ pc[r] = "idle"
    /\ mode' = [mode EXCEPT ![r] = m]
    /\ keys' = [keys EXCEPT ![r] = Ascending(Cardinality(DOMAIN services))]
    /\ pc' = [pc EXCEPT ![r] = "created"]
    /\ gpc' = [gpc EXCEPT ![r] = IF m = "get" THEN "next" ELSE "none"]
    /\ UNCHANGED <<services, op, build, rt, tpos, delivered, result>>
    /\ UNCHANGED resolverVars
    /\ UNCHANGED <<thrown, returned>>
    /\ UNCHANGED effectVars
    /\ UNCHANGED benchVars

\* resolve(ctx)(ambient)() is driven on its own, one resolution after the
\* other.  The first is handed the registry as provided; a later one is
\* handed the same registry object, or a registry built again from the same
\* factory definitions, provided in any order.
Resolve(r, b, ks) ==
    /\ pc[r] = "idle"
    /\ IF r = 1 THEN TRUE ELSE Finished(r - 1)
    /\ \/ b = 1 /\ ks = Ascending(Cardinality(DOMAIN services))
       \/ r > 1 /\ b = r /\ ks \in KeyOrders(Cardinality(DOMAIN services))
    /\ mode' = [mode EXCEPT ![r] = "resolve"]
    /\ build' = [build EXCEPT ![r] = b]
    /\ keys' = [keys EXCEPT ![r] = ks]
    /\ pc' = [pc EXCEPT ![r] = "resolving"]
    /\ UNCHANGED <<services, op, gpc, rt, tpos, delivered, result>>
    /\ UNCHANGED resolverVars
    /\ UNCHANGED <<thrown, returned>>
    /\ UNCHANGED effectVars
    /\ UNCHANGED benchVars

\* The first next(): the generator body starts, createRuntime() makes the
\* handle, and the pull enters resolve.
Start(r) ==
    /\ pc[r] = "created"
    /\ pc' = [pc EXCEPT ![r] = "resolving"]
    /\ rt' = [rt EXCEPT ![r] = CreateRuntime]
    /\ UNCHANGED <<services, op, build, keys, mode, gpc, tpos, delivered,
                   result>>
    /\ UNCHANGED resolverVars
    /\ UNCHANGED <<thrown, returned>>
    /\ UNCHANGED effectVars
    /\ UNCHANGED benchVars

\* resolve's catch: yield Result.err(err); flatMap yields the failure on to
\* the stream, which yields it to the caller.
ResolveFail(r, e) ==
    /\ res' = [res EXCEPT ![r] = [state |-> "err", env |-> <<>>, error |-> e]]
    /\ frames' = [frames EXCEPT ![r] = <<>>]
    /\ delivered' = [delivered EXCEPT ![r] = Append(@, Err(e))]
    /\ pc' = [pc EXCEPT ![r] = IF mode[r] = "resolve" THEN "done" ELSE "yielded"]

\* for (const key of Object.keys(blueprint)) await runFactory(key);
\* then yield Result.ok(Object.fromEntries(cache)), which flatMap hands to
\* the target: op({...env, ...runtime}).
ResolveLoop(r) ==
    /\ pc[r] = "resolving"
    /\ frames[r] = <<>>
    /\ IF AllKeysVisited(r)
       THEN /\ res' = [res EXCEPT ![r] =
                          [state |-> "ok", env |-> cache[r], error |-> NoError]]
            /\ pc' = [pc EXCEPT ![r] =
                         IF mode[r] = "resolve" THEN "done" ELSE "target"]
            /\ UNCHANGED <<idx, frames>>
       ELSE /\ frames' = [frames EXCEPT ![r] = <<Frame(keys[r][idx[r]])>>]
            /\ idx' = [idx EXCEPT ![r] = @ + 1]
            /\ UNCHANGED <<res, pc>>
    /\ UNCHANGED <<services, op, its, build, keys, mode, gpc, stack, cache, rt,
                   tpos, delivered, result, readUnknown, attempts>>
    /\ UNCHANGED <<thrown, returned>>
    /\ UNCHANGED effectVars
    /\ UNCHANGED benchVars

\* runFactory(key) up to its restart loop: return when cached, throw the
\* CircularDependencyError when key is on the stack, else stack.add(key).
RunFactoryEnter(r) ==
    /\ pc[r] = "resolving"
    /\ frames[r] # <<>>
    /\ Top(r).pc = "enter"
    /\ LET key == Top(r).key IN
       IF key \in DOMAIN cache[r]
       THEN /\ frames' = [frames EXCEPT ![r] = Popped(r)]
            /\ UNCHANGED <<stack, res, delivered, pc>>
       ELSE IF InSeq(stack[r], key)
       THEN /\ ResolveFail(r, CircularDependencyError(Append(stack[r], key)))
            /\ UNCHANGED stack
       ELSE IF key \notin DOMAIN services
       THEN /\ ResolveFail(r, DependencyResolutionError)
            /\ stack' = [stack EXCEPT ![r] = Append(@, key)]
       ELSE /\ stack' = [stack EXCEPT ![r] = Append(@, key)]
            /\ frames' = [frames EXCEPT ![r] =
                             Append(Popped(r), [Top(r) EXCEPT !.pc = "attempt"])]
            /\ UNCHANGED <<res, delivered, pc>>
    /\ UNCHANGED <<services, op, its, build, keys, mode, gpc, idx, cache, rt,
                   tpos, result, readUnknown, attempts>>
    /\ UNCHANGED <<thrown, returned>>
    /\ UNCHANGED effectVars
    /\ UNCHANGED benchVars

\* One pass of the restart loop: run the factory against lazyEnv.  A thrown
\* string that names a blueprint key calls runFactory on it and restarts the
\* factory afterwards; anything else thrown fails the resolution; a normal
\* end caches the result.
Attempt(r) ==
    /\ pc[r] = "resolving"
    /\ frames[r] # <<>>
    /\ Top(r).pc = "attempt"
    /\ LET key == Top(r).key
           run == FactoryRun(services, key, its[build[r]][key], cache[r])
           e == LoopThrown(run)
       IN /\ its' = [its EXCEPT ![build[r]][key] = run.it]
          /\ readUnknown' = [readUnknown EXCEPT ![r] = @ \/ run.unknown]
          /\ attempts' = [attempts EXCEPT ![r][key] = Attempted(@, e, run)]
          /\ IF e = NoError
             THEN /\ cache' = [cache EXCEPT ![r] = (key :> LoopResult(run)) @@ @]
                  /\ stack' = [stack EXCEPT ![r] = Without(@, key)]
                  /\ frames' = [frames EXCEPT ![r] = Popped(r)]
                  /\ UNCHANGED <<res, delivered, pc>>
             ELSE IF e.tag = "string" /\ e.key \in DOMAIN services
             THEN /\ frames' = [frames EXCEPT ![r] =
                                   Append(Append(Popped(r),
                                                 [Top(r) EXCEPT !.restarted = TRUE]),
                                          Frame(e.key))]
                  /\ UNCHANGED <<cache, stack, res, delivered, pc>>
             ELSE /\ ResolveFail(r, e)
                  /\ UNCHANGED <<cache, stack>>
    /\ UNCHANGED <<services, op, build, keys, mode, gpc, idx, rt, tpos, result>>
    /\ UNCHANGED <<thrown, returned>>
    /\ UNCHANGED effectVars
    /\ UNCHANGED benchVars

\* Every live handle is aborted at once.
CloseAll(r) ==
    /\ pc' = [pc EXCEPT ![r] = "done"]
    /\ rt' = [q \in Runs |-> IF rt[q] = "live" THEN "aborted" ELSE rt[q]]

\* The stream generator completes: its finally block aborts the handle.
Close(r) ==
    /\ pc' = [pc EXCEPT ![r] = "done"]
    /\ rt' = [rt EXCEPT ![r] = Finally(rt[r])]

\* flatMap pulls the next element of op(env)().  An Outcome is yielded to the
\* caller; the end of the Sequence ends flatMap and the stream; a fault is
\* caught by the stream, which rethrows a CircularDependencyError and yields
\* anything else as a failure Outcome.
TargetPull(r) ==
    /\ pc[r] = "target"
    /\ IF tpos[r] < Len(op.outs)
       THEN /\ tpos' = [tpos EXCEPT ![r] = @ + 1]
            /\ delivered' = [delivered EXCEPT ![r] =
                                Append(@, TargetOutcome(op, tpos[r] + 1))]
            /\ pc' = [pc EXCEPT ![r] = "yielded"]
            /\ UNCHANGED <<rt, thrown>>
       ELSE IF op.fin = "fault"
       THEN IF TargetFault(op).tag = "CircularDependencyError"
            THEN /\ thrown' = [thrown EXCEPT ![r] = TargetFault(op)]
                 /\ Close(r)
                 /\ UNCHANGED <<tpos, delivered>>
            ELSE /\ delivered' = [delivered EXCEPT ![r] =
                                     Append(@, Err(TargetFault(op)))]
                 /\ pc' = [pc EXCEPT ![r] = "caught"]
                 /\ UNCHANGED <<tpos, rt, thrown>>
       ELSE /\ Close(r)
            /\ UNCHANGED <<tpos, delivered, thrown>>
    /\ UNCHANGED <<services, op, build, keys, mode, gpc, result>>
    /\ UNCHANGED resolverVars
    /\ UNCHANGED returned
    /\ UNCHANGED effectVars
    /\ UNCHANGED benchVars

\* The caller of stream calls next() on the suspended generator.
Resume(r) ==
    /\ mode[r] = "stream"
    /\ \/ /\ pc[r] = "yielded"
          /\ IF ContinuesAfter(delivered[r][Len(delivered[r])])
             THEN pc' = [pc EXCEPT ![r] = "target"] /\ UNCHANGED rt
             ELSE Close(r)
       \/ /\ pc[r] = "caught"
          /\ Close(r)
    /\ UNCHANGED <<services, op, build, keys, mode, gpc, tpos, delivered,
                   result>>
    /\ UNCHANGED resolverVars
    /\ UNCHANGED <<thrown, returned>>
    /\ UNCHANGED effectVars
    /\ UNCHANGED benchVars

\* The caller of stream stops consuming: return() on the generator (what
\* leaving a for await loop does).  A generator whose body never started
\* completes without running anything.
Return(r) ==
    /\ mode[r] = "stream"
    /\ \/ /\ pc[r] \in {"yielded", "caught"}
          /\ Close(r)
       \/ /\ pc[r] = "created"
          /\ pc' = [pc EXCEPT ![r] = "done"]
          /\ UNCHANGED rt
    /\ UNCHANGED <<services, op, build, keys, mode, gpc, tpos, delivered,
                   result>>
    /\ UNCHANGED resolverVars
    /\ UNCHANGED thrown
    /\ returned' = [returned EXCEPT ![r] = TRUE]
    /\ UNCHANGED effectVars
    /\ UNCHANGED benchVars

\* get: it.next() has settled; the finally block calls it.return(undefined).
GetReturn(r) ==
    /\ mode[r] = "get"
    /\ gpc[r] = "next"
    /\ \/ /\ pc[r] \in {"yielded", "caught"}
          /\ Close(r)
       \/ /\ pc[r] = "done"
          /\ UNCHANGED <<pc, rt>>
    /\ gpc' = [gpc EXCEPT ![r] = "returning"]
    /\ UNCHANGED <<services, op, build, keys, mode, tpos, delivered, result>>
    /\ UNCHANGED resolverVars
    /\ UNCHANGED thrown
    /\ returned' = [returned EXCEPT ![r] = pc[r] # "done"]
    /\ UNCHANGED effectVars
    /\ UNCHANGED benchVars

\* get's promise settles: with the first Outcome, or rejected with
\* "Operation completed without yielding a result." when there was none.
GetSettle(r) ==
    /\ mode[r] = "get"
    /\ gpc[r] \in {"next", "returning"}
    /\ pc[r] \in {"yielded", "caught", "done"}
    /\ GetMaySettle(r)
    /\ result' = [result EXCEPT ![r] =
                     IF thrown[r] # NoError
                     THEN [state |-> "rejected", value |-> Ok(Undefined),
                           error |-> thrown[r]]
                     ELSE FirstOrThrow(delivered[r])]
    /\ gpc' = [gpc EXCEPT ![r] = "settled"]
    /\ UNCHANGED <<services, op, build, keys, mode, pc, rt, tpos, delivered>>
    /\ UNCHANGED resolverVars
    /\ UNCHANGED <<thrown, returned>>
    /\ UNCHANGED effectVars
    /\ UNCHANGED benchVars

\* The steps of resolve.
ResolveStep(r) == ResolveLoop(r) \/ RunFactoryEnter(r) \/ Attempt(r)

Next ==
    \/ \E m \in {"stream", "get"} : Call(1, m)
    \/ \E r \in Runs : Start(r)
    \/ \E r \in Runs : ResolveLoop(r)
    \/ \E r \in Runs : RunFactoryEnter(r)
    \/ \E r \in Runs : Attempt(r)
    \/ \E r \in Runs : TargetPull(r)
    \/ \E r \in Runs : Resume(r)
    \/ \E r \in Runs : Return(r)
    \/ \E r \in Runs : GetReturn(r)
    \/ \E r \in Runs : GetSettle(r)

NextResolve ==
    \/ \E r \in Runs, b \in Runs :
           \E ks \in KeyOrders(Cardinality(DOMAIN services)) : Resolve(r, b, ks)
    \/ \E r \in Runs : ResolveLoop(r)
    \/ \E r \in Runs : RunFactoryEnter(r)
    \/ \E r \in Runs : Attempt(r)

\* One Runner invocation, over small registries and every target.
RunnerKeys == MaxKeys - 1
RunnerReads == MaxReads - 1
SimpleTarget == [outs |-> <<"ok">>, fin |-> "end"]
Init == InitWith(Registries(RunnerKeys, RunnerReads, 0, 1), Targets)
Spec == Init /\ [][Next]_vars

\* One Runner invocation on the simple target, over registries that may hold
\* a gen factory and a factory that does not end in success.
InitSolo == InitWith(Registries(RunnerKeys, RunnerReads, 1, 1), {SimpleTarget})
SoloSpec == InitSolo /\ [][Next]_vars

\* Two Runner invocations on one registry and one target, interleaved in
\* every way.
Both == {1, 2}

NextPair ==
    \/ \E r \in Both, m \in {"stream", "get"} : Call(r, m)
    \/ \E r \in Both : Start(r)
    \/ \E r \in Both : ResolveLoop(r)
    \/ \E r \in Both : RunFactoryEnter(r)
    \/ \E r \in Both : Attempt(r)
    \/ \E r \in Both : TargetPull(r)
    \/ \E r \in Both : Resume(r)
    \/ \E r \in Both : Return(r)
    \/ \E r \in Both : GetReturn(r)
    \/ \E r \in Both : GetSettle(r)

InitPair == InitWith(Registries(RunnerKeys, RunnerReads, 1, 0), {SimpleTarget})
PairSpec == InitPair /\ [][NextPair]_vars

\* The event loop runs every continuation that is ready: a resolution in
\* progress takes its next step.
FairSpec == Spec /\ \A r \in Runs : WF_vars(ResolveStep(r))

\* Resolutions of one registry, its factories all succeeding once their
\* reads are served.
InitResolve == InitWith(Registries(MaxKeys, MaxReads + 1, 1, 0), {SimpleTarget})
ResolveSpec == InitResolve /\ [][NextResolve]_vars

\* ----------------------------------------------------------------- effects
\* The composites are constructed, invoked against the Environment, and the
\* Sequences they give are pulled, each at its caller's pace.

\* The Sequence m yields Outcome out and suspends.
Yield(m, out) ==
    [m EXCEPT !.st = "suspended",
              !.outs = Append(@, out),
              !.log = Append(@, Event("yield", 0, out))]

\* The values the active steps last gave, outermost first.
FrameVals(fr) == [i \in 1..Len(fr) |-> fr[i].val]

RECURSIVE Continue(_, _, _, _)
RECURSIVE Enter(_, _, _, _, _)

\* yielded(r)() / fa(r)(): step i is invoked and its Sequence is iterated.
Enter(ch, hrt, m, it, i) ==
    LET s == StepSeq(ch[i], hrt)
        invoked == [m EXCEPT !.log = Append(@, Event("invoke", i, Ok(Undefined)))]
    IN IF s.fault # NoError
       THEN [m |-> [invoked EXCEPT !.st = "faulted", !.fault = s.fault],
             it |-> it]
       ELSE Continue(ch, hrt,
                     [invoked EXCEPT !.frames =
                          Append(@, [step |-> i, pos |-> 0, seen |-> FALSE,
                                     val |-> Undefined])],
                     it)

\* The innermost for await loop takes the next Outcome of its step, up to
\* the next yield of the composite, its end, or a fault.
\*   flatMap: a failure is yielded; a success is handed to the continuation,
\*            whose Effect is spliced in.
\*   gen run: a failure is yielded; a second success throws
\*            GenInvariantError; a first success resumes the shared generator
\*            and what it answers is run next.
Continue(ch, hrt, m, it) ==
    IF m.frames = <<>>
    THEN [m |-> [m EXCEPT !.st = "ended"], it |-> it]
    ELSE
    LET d == Len(m.frames)
        top == m.frames[d]
        seq == StepSeq(ch[top.step], hrt).outs
    IN
    IF top.pos = Len(seq)
    THEN Continue(ch, hrt, [m EXCEPT !.frames = SubSeq(@, 1, d - 1)], it)
    ELSE
    LET sres == seq[top.pos + 1]
        got == [m EXCEPT !.frames[d].pos = @ + 1,
                         !.log = Append(@, Event("res", top.step, sres))]
    IN
    IF ~sres.ok THEN [m |-> Yield(got, sres), it |-> it]
    ELSE IF m.kind = "flat"
    THEN LET called == [got EXCEPT !.frames[d].val = sres.value,
                                   !.log = Append(@, Event("call", top.step, sres))]
         IN IF top.step = Len(ch)
            THEN [m |-> Yield(called, Ok(Combine(0, FrameVals(called.frames)))),
                  it |-> it]
            ELSE Enter(ch, hrt, called, it, top.step + 1)
    ELSE IF top.seen
    THEN [m |-> [got EXCEPT !.st = "faulted", !.fault = GenInvariantError],
          it |-> it]
    ELSE LET n == ItNext(0, Procedure(ch), it, sres.value)
             resumed == [got EXCEPT !.frames[d].seen = TRUE,
                                    !.frames[d].val = sres.value,
                                    !.log = Append(@, Event("resume", top.step, sres))]
         IN IF n.done
            THEN [m |-> Yield(resumed, Ok(n.value)), it |-> n.it]
            ELSE Enter(ch, hrt, resumed, n.it, n.it.pos + 1)

\* next() on the Sequence m.
Drive(ch, hrt, m, it) ==
    LET pulled == [m EXCEPT !.log = Append(@, Event("pull", 0, Ok(Undefined)))] IN
    IF m.st = "fresh"
    THEN IF Len(ch) = 0
         THEN [m |-> Yield(pulled, Ok(Combine(0, <<>>))), it |-> it]
         ELSE Enter(ch, hrt, pulled, it, 1)
    ELSE IF ContinuesAfter(m.outs[Len(m.outs)])
         THEN Continue(ch, hrt, pulled, it)
         ELSE [m |-> [pulled EXCEPT !.st = "ended"], it |-> it]

\* User code ran in log l after its first n events: a continuation was
\* called or the procedure was resumed.
UserCodeIn(l, n) ==
    \E j \in (n + 1)..Len(l) : l[j].e \in {"call", "resume"}

\* The composite of kind c is constructed.  gen calls body() and it.next():
\* the procedure runs to its first yield (or to its return) there and then.
Build(c) ==
    /\ c \notin built
    /\ built' = built \cup {c}
    /\ genIt' = IF c = "gen" THEN InitIt(Procedure(chain)) ELSE genIt
    /\ worked' = IF c = "gen" THEN worked \cup {c} ELSE worked
    /\ UNCHANGED <<chain, hasRuntime, inv>>
    /\ UNCHANGED runnerVars
    /\ UNCHANGED benchVars

\* composite(env)(): the k-th Sequence is created from the composite of kind
\* c.  Nothing runs yet.
Invoke(k, c) ==
    /\ c \in built
    /\ inv[k].kind = "none"
    /\ IF k = 1 THEN TRUE ELSE inv[k - 1].kind # "none"
    /\ inv' = [inv EXCEPT ![k] = [NoInvocation EXCEPT !.kind = c, !.st = "fresh"]]
    /\ UNCHANGED <<chain, hasRuntime, built, genIt, worked>>
    /\ UNCHANGED runnerVars
    /\ UNCHANGED benchVars

\* The caller of the k-th Sequence pulls its next Outcome.
Pull(k) ==
    /\ inv[k].st \in {"fresh", "suspended"}
    /\ LET d == Drive(chain, hasRuntime, inv[k], genIt) IN
       /\ inv' = [inv EXCEPT ![k] = d.m]
       /\ genIt' = IF inv[k].kind = "gen" THEN d.it ELSE genIt
       /\ worked' = IF UserCodeIn(d.m.log, Len(inv[k].log))
                    THEN worked \cup {inv[k].kind} ELSE worked
    /\ UNCHANGED <<chain, hasRuntime, built>>
    /\ UNCHANGED runnerVars
    /\ UNCHANGED benchVars

NextEffect ==
    \/ \E c \in {"flat", "gen"} : Build(c)
    \/ \E k \in Invocations, c \in {"flat", "gen"} : Invoke(k, c)
    \/ \E k \in Invocations : Pull(k)

RunnerIdle ==
    /\ services = <<>>
    /\ op = SimpleTarget
    /\ its = [b \in Runs |-> <<>>]
    /\ build = [r \in Runs |-> 1]
    /\ keys = [r \in Runs |-> <<>>]
    /\ mode = [r \in Runs |-> "none"]
    /\ pc = [r \in Runs |-> "idle"]
    /\ gpc = [r \in Runs |-> "none"]
    /\ idx = [r \in Runs |-> 1]
    /\ frames = [r \in Runs |-> <<>>]
    /\ stack = [r \in Runs |-> <<>>]
    /\ cache = [r \in Runs |-> <<>>]
    /\ res = [r \in Runs |-> NoRes]
    /\ rt = [r \in Runs |-> "none"]
    /\ tpos = [r \in Runs |-> 0]
    /\ delivered = [r \in Runs |-> <<>>]
    /\ result = [r \in Runs |-> NoResult]
    /\ thrown = [r \in Runs |-> NoError]
    /\ returned = [r \in Runs |-> FALSE]
    /\ readUnknown = [r \in Runs |-> FALSE]
    /\ attempts = [r \in Runs |-> [k \in DOMAIN services |-> NoAttempt]]

InitEffect ==
    /\ RunnerIdle
    /\ BenchIdle
    /\ chain \in Chains
    /\ hasRuntime \in BOOLEAN
    /\ built = {}
    /\ genIt = InitIt(Procedure(chain))
    /\ worked = {}
    /\ inv = [k \in Invocations |-> NoInvocation]

EffectSpec == InitEffect /\ [][NextEffect]_vars

\* One Sequence of the flatMap composite, pulled to its end.
NextFlatMap ==
    \/ Build("flat")
    \/ Invoke(1, "flat")
    \/ Pull(1)

FlatMapSpec == InitEffect /\ [][NextFlatMap]_vars

\* ------------------------------------------------------ gen over procedures
\* gen(body) is called: gen0 runs.
Gen ==
    /\ genOp.kind = "none"
    /\ genOp' = Gen0(body).op
    /\ bodyIt' = Gen0(body).it
    /\ UNCHANGED <<body, seqs>>
    /\ UNCHANGED <<runnerVars, effectVars, bulkVars, facadeVars, combVars, ctxVars>>

\* The k-th Sequence of the composite is created and iterated to its end.
Consume(k) ==
    /\ genOp.kind # "none"
    /\ seqs[k].st = "none"
    /\ IF k = 1 THEN TRUE ELSE seqs[k - 1].st # "none"
    /\ LET d == Iterate(body, genOp, bodyIt) IN
       /\ seqs' = [seqs EXCEPT ![k] =
                      [st |-> "ended", outs |-> d.outs, fault |-> d.fault,
                       log |-> d.log, halt |-> d.halt]]
       /\ bodyIt' = d.it
    /\ UNCHANGED <<body, genOp>>
    /\ UNCHANGED <<runnerVars, effectVars, bulkVars, facadeVars, combVars, ctxVars>>

NextGen ==
    \/ Gen
    \/ \E k \in Sequences : Consume(k)

InitGen ==
    /\ RunnerIdle
    /\ EffectIdle
    /\ BulkIdle
    /\ FacadeIdle
    /\ CombIdle
    /\ CtxIdle
    /\ body \in Bodies
    /\ genOp = NoGenOp
    /\ bodyIt = InitIt(Procedure(<<>>))
    /\ seqs = [k \in Sequences |-> NoSequence]

GenSpec == InitGen /\ [][NextGen]_vars


\* ---------------------------------------------------------- bulk iteration
\* fromIterable(it)(r)(): the Sequence is created.
BulkInvoke ==
    /\ bulkSeq.st = "none"
    /\ bulkSeq' = [bulkSeq EXCEPT !.st = "fresh"]
    /\ UNCHANGED <<bulk, handle>>
    /\ UNCHANGED <<runnerVars, effectVars, procVars, facadeVars, combVars, ctxVars>>

\* The loop takes the next element of the iterable, and only then looks at
\* signal.aborted: for (const x of it) { if (signal.aborted) break; yield }.
\* An iterable that throws lands in the catch block, which yields the
\* failure.
BulkFetch(s) ==
    IF s.pos < bulk.items
    THEN IF handle = "aborted"
         THEN [s EXCEPT !.st = "ended", !.pos = @ + 1]
         ELSE [s EXCEPT !.st = "suspended", !.pos = @ + 1,
                        !.outs = Append(@, Ok(s.pos + 1))]
    ELSE IF bulk.throws
         THEN [s EXCEPT !.st = "caught", !.outs = Append(@, Err(PlainError))]
         ELSE [s EXCEPT !.st = "ended"]

\* next() on the Sequence.  The first next() reads the handle from the
\* Environment; an Environment without one lands in the catch block too.
BulkPull ==
    /\ bulkSeq.st \in {"fresh", "suspended", "caught"}
    /\ bulkSeq' =
          IF bulkSeq.st = "caught" THEN [bulkSeq EXCEPT !.st = "ended"]
          ELSE IF bulkSeq.st = "fresh" /\ handle = "none"
          THEN [bulkSeq EXCEPT !.st = "caught",
                               !.outs = Append(@, Err(InvalidRuntime))]
          ELSE BulkFetch(bulkSeq)
    /\ UNCHANGED <<bulk, handle>>
    /\ UNCHANGED <<runnerVars, effectVars, procVars, facadeVars, combVars, ctxVars>>

\* runtime.abort(reason) / controller.abort(reason) while the Sequence is
\* being iterated.
BulkAbort ==
    /\ handle = "live"
    /\ bulkSeq.st \in {"fresh", "suspended", "caught"}
    /\ handle' = "aborted"
    /\ bulkSeq' = [bulkSeq EXCEPT !.aborted = TRUE, !.before = bulkSeq.outs]
    /\ UNCHANGED bulk
    /\ UNCHANGED <<runnerVars, effectVars, procVars, facadeVars, combVars, ctxVars>>

NextBulk == BulkInvoke \/ BulkPull \/ BulkAbort

InitBulk ==
    /\ RunnerIdle
    /\ EffectIdle
    /\ ProcIdle
    /\ FacadeIdle
    /\ CombIdle
    /\ CtxIdle
    /\ bulk \in BulkEffects
    /\ handle \in {"none", "live"}
    /\ bulkSeq = NoBulkSeq

BulkSpec == InitBulk /\ [][NextBulk]_vars

\* ----------------------------------------------------------- facade calls
\* facade.member(args) is gen over the proxy's procedure (action Gen); its
\* Sequences are iterated by Consume.  The hand-written composite is built
\* and iterated here.
ConsumeManual ==
    /\ manual.st = "none"
    /\ LET d == Manual(member) IN
       manual' = [st |-> "ended", outs |-> d.outs, fault |-> d.fault]
    /\ UNCHANGED member
    /\ UNCHANGED <<runnerVars, effectVars, procVars, bulkVars, combVars, ctxVars>>

NextFacade ==
    \/ Gen
    \/ \E k \in Sequences : Consume(k)
    \/ ConsumeManual

InitFacade ==
    /\ RunnerIdle
    /\ EffectIdle
    /\ BulkIdle
    /\ CombIdle
    /\ CtxIdle
    /\ member \in Members
    /\ manual = NoManual
    /\ body = FacadeBody(member)
    /\ genOp = NoGenOp
    /\ bodyIt = InitIt(Procedure(<<>>))
    /\ seqs = [k \in Sequences |-> NoSequence]

FacadeSpec == InitFacade /\ [][NextFacade]_vars

\* --------------------------------------------------- combinators applied
\* combinator(f)(source)(r)() is created and iterated to its end.
Apply(c) ==
    /\ applied[c].st = "none"
    /\ LET d == CASE c = "orElse" -> OrElse(source, recover)
                  [] c = "map" -> Map(source)
                  [] c = "mapErr" -> MapErr(source)
                  [] c = "tap" -> Tap(source)
                  [] c = "tapErr" -> TapErr(source)
       IN applied' = [applied EXCEPT ![c] =
                         [st |-> "ended", outs |-> d.outs, fault |-> d.fault,
                          calls |-> d.calls]]
    /\ UNCHANGED <<source, recover>>
    /\ UNCHANGED <<runnerVars, effectVars, procVars, bulkVars, facadeVars, ctxVars>>

NextComb == \E c \in Transformers : Apply(c)

InitComb ==
    /\ RunnerIdle
    /\ EffectIdle
    /\ ProcIdle
    /\ BulkIdle
    /\ FacadeIdle
    /\ CtxIdle
    /\ source \in Sources
    /\ recover \in Recoveries
    /\ applied = [c \in Combinators |-> NoApplied]

CombSpec == InitComb /\ [][NextComb]_vars

\* tap and tapErr applied to a source.
NextTap == \E c \in Observers : Apply(c)

TapSpec == InitComb /\ [][NextTap]_vars

\* ------------------------------------------------------- contexts derived
\* provide(tag, operation)(self), self the i-th Context created.
Provide(i, key, operation) ==
    /\ Len(contexts) <= MaxContexts
    /\ contexts' = NewContext(contexts, i, Extended(contexts[i], key, operation))
    /\ UNCHANGED <<runnerVars, effectVars, procVars, bulkVars, facadeVars,
                   combVars>>

NextCtx ==
    \E i \in 1..Len(contexts), key \in Keys, operation \in ProvidedOps :
        Provide(i, key, operation)

InitCtx ==
    /\ RunnerIdle
    /\ EffectIdle
    /\ ProcIdle
    /\ BulkIdle
    /\ FacadeIdle
    /\ CombIdle
    /\ contexts = <<EmptyServices>>

CtxSpec == InitCtx /\ [][NextCtx]_vars

\* ------------------------------------------------------------------ claims
\* A resolution run r ended with the Environment.
Resolved(r) == res[r].state = "ok"

\* Every key a factory reads is a key of the registry.
ReadsRegistered ==
    \A k \in DOMAIN services :
        \A i \in 1..Len(services[k].reads) :
            services[k].reads[i] \in DOMAIN services

\* Run r used a registry built apart from run 1's, from the same factory
\* definitions.
BuiltApart(r) == mode[r] = "resolve" /\ pc[r] # "idle" /\ build[r] # 1

\* C1: resolving the registry with its keys provided in any order gives the
\* same Environment: two resolutions of registries built from the same
\* factory definitions in different orders, both succeeding, end with equal
\* Environments (the factories reading registered keys only).
C1_OrderIndependent ==
    \A r \in Runs :
        (ReadsRegistered /\ BuiltApart(r) /\ Resolved(1) /\ Resolved(r)) =>
            res[r].env = res[1].env

\* The registered keys that key's factory reads.
ReadsOf(key) == {services[key].reads[i] : i \in 1..Len(services[key].reads)}
                    \cap DOMAIN services

\* The keys reached from the set S by following reads, n times at most.
RECURSIVE ReadClosure(_, _)
ReadClosure(S, n) ==
    IF n = 0 THEN S
    ELSE ReadClosure(S \cup UNION {ReadsOf(k) : k \in S}, n - 1)

\* Some key's factory transitively reads itself.
Cyclic == \E k \in DOMAIN services : k \in ReadClosure(ReadsOf(k), MaxKeys)

\* path ends where it closes a cycle of reads: its last key occurs earlier,
\* and from there on each key reads the next.
NamesCycle(path) ==
    /\ Len(path) >= 2
    /\ \E i \in 1..(Len(path) - 1) :
          /\ path[i] = path[Len(path)]
          /\ \A j \in i..(Len(path) - 1) : path[j + 1] \in ReadsOf(path[j])

\* C2: when some key's factory transitively reads itself, every resolution
\* fails with a CircularDependencyError whose path names the cycle, and none
\* ends with an Environment (the factories reading registered keys only).
C2_CycleDetected ==
    (ReadsRegistered /\ Cyclic) =>
        \A r \in Runs :
            pc[r] = "done" =>
                /\ res[r].state = "err"
                /\ res[r].error.tag = "CircularDependencyError"
                /\ NamesCycle(res[r].error.path)

\* C3: a CircularDependencyError of the resolution reaches the caller of
\* stream / get as a thrown fault, never as a failure Outcome.
C3_CircularIsThrown ==
    \A r \in Runs :
        (res[r].state = "err" /\ res[r].error.tag = "CircularDependencyError") =>
            /\ \A i \in 1..Len(delivered[r]) :
                   delivered[r][i].error.tag # "CircularDependencyError"
            /\ pc[r] = "done" => thrown[r] = res[r].error

\* The restart loop of run r is about to run a factory again, after a
\* missing dependency of an earlier pass was resolved.
AtRestart(r) ==
    /\ pc[r] = "resolving"
    /\ frames[r] # <<>>
    /\ Top(r).pc = "attempt"
    /\ Top(r).restarted

\* C4: a restarted factory behaves like a first run of the factory made
\* against the same cache: the discarded pass left nothing behind (the
\* factories reading registered keys only).
C4_RestartFromScratch ==
    \A r \in Runs :
        (ReadsRegistered /\ AtRestart(r)) =>
            LET key == Top(r).key
                again == FactoryRun(services, key, its[build[r]][key], cache[r])
                first == FactoryRun(services, key, InitIt(services[key]), cache[r])
            IN again.outs = first.outs /\ again.fault = first.fault

\* C5: a resolution ends with the Environment only when every key of the
\* registry is cached, and the Environment is the cache: same keys, same
\* values.
C5_EnvIsCacheSnapshot ==
    \A r \in Runs :
        Resolved(r) =>
            /\ DOMAIN cache[r] = DOMAIN services
            /\ DOMAIN res[r].env = DOMAIN services
            /\ \A k \in DOMAIN services : res[r].env[k] = cache[r][k]

C5_Witness ==
    \E r \in Runs :
        /\ Resolved(r)
        /\ Cardinality(DOMAIN services) >= 2
        /\ \E k \in DOMAIN services : services[k].reads # <<>>

\* C6: a resolution in which a factory read a key the registry does not hold
\* does not end with the Environment.
C6_UnknownKeyFails == \A r \in Runs : readUnknown[r] => ~Resolved(r)

\* C7: every resolution that starts comes to its end.
C7_ResolutionTerminates ==
    \A r \in Runs : (pc[r] = "resolving") ~> (pc[r] # "resolving")

\* C8: a stream generator that created its Runtime Handle and completed has
\* aborted the handle, whichever way it completed.
C8_HandleAborted ==
    \A r \in Runs : (pc[r] = "done" /\ rt[r] # "none") => rt[r] = "aborted"

\* The caller stopped consuming while the target had more to give.
C8_Witness ==
    \E r \in Runs :
        /\ mode[r] = "stream"
        /\ pc[r] = "done"
        /\ returned[r]
        /\ rt[r] = "aborted"
        /\ 0 < tpos[r] /\ tpos[r] < Len(op.outs)
        /\ delivered[r][Len(delivered[r])].ok

\* The Outcomes of target t up to and including its first failure.
UpToFirstFailure(t) ==
    LET all == [i \in 1..Len(t.outs) |-> TargetOutcome(t, i)]
    IN IF FailIdx(all) = 0 THEN all ELSE SubSeq(all, 1, FailIdx(all))

\* Run r consumed the stream to its end, the resolution having succeeded.
ConsumedToEnd(r) ==
    /\ mode[r] = "stream"
    /\ pc[r] = "done"
    /\ ~returned[r]
    /\ Resolved(r)

\* C9 as stated: the caller is yielded every Outcome the target holds, in
\* order.
C9_EveryOutcomeYielded ==
    \A r \in Runs :
        ConsumedToEnd(r) =>
            /\ Len(delivered[r]) >= Len(op.outs)
            /\ \A i \in 1..Len(op.outs) : delivered[r][i] = TargetOutcome(op, i)

\* C9 amended: the caller is yielded, in order, the target's Outcomes up to
\* and including its first failure; nothing after that failure is pulled.
C9_YieldedUpToFirstFailure ==
    \A r \in Runs :
        (mode[r] \in {"stream", "get"} /\ Resolved(r)) =>
            LET want == UpToFirstFailure(op) IN
            /\ tpos[r] <= Len(want)
            /\ Len(delivered[r]) >= tpos[r]
            /\ \A i \in 1..tpos[r] : delivered[r][i] = want[i]
            /\ ConsumedToEnd(r) => tpos[r] = Len(want)

C9_Witness ==
    \E r \in Runs :
        /\ ConsumedToEnd(r)
        /\ Len(op.outs) >= 2
        /\ op.outs[1] = "ok" /\ op.outs[2] = "err"
        /\ tpos[r] = 2

\* C10: when get's promise settles the stream generator has completed and
\* its handle is aborted, no element past the first was pulled from the
\* target, and the promise carries the first Outcome of the stream.
C10_GetFirstThenRelease ==
    \A r \in Runs :
        mode[r] = "get" =>
            /\ tpos[r] <= 1
            /\ Len(delivered[r]) <= 1
            /\ gpc[r] = "settled" =>
                  /\ pc[r] = "done"
                  /\ rt[r] = "aborted"
                  /\ delivered[r] # <<>> =>
                        /\ result[r].state = "fulfilled"
                        /\ result[r].value = delivered[r][1]

C10_Witness ==
    \E r \in Runs :
        /\ mode[r] = "get"
        /\ gpc[r] = "settled"
        /\ result[r].state = "fulfilled"
        /\ result[r].value = Ok(1)
        /\ Len(op.outs) >= 2

\* C11: get on a target whose Sequence ends with no Outcome rejects with
\* "Operation completed without yielding a result."; it returns no Outcome.
C11_EmptyTargetThrows ==
    \A r \in Runs :
        (/\ mode[r] = "get"
         /\ gpc[r] = "settled"
         /\ Resolved(r)
         /\ op.outs = <<>> /\ op.fin = "end") =>
            /\ result[r].state = "rejected"
            /\ result[r].error = NoResultError

C11_Witness ==
    \E r \in Runs :
        /\ mode[r] = "get"
        /\ gpc[r] = "settled"
        /\ Resolved(r)
        /\ DOMAIN services # {}
        /\ op.outs = <<>> /\ op.fin = "end"
        /\ result[r].error = NoResultError

\* C12: a defect raised by the target while a Runner run is in progress
\* reaches the caller as a thrown fault; no Outcome delivered to the caller
\* carries it.
C12_DefectsAreThrown ==
    \A r \in Runs :
        /\ \A i \in 1..Len(delivered[r]) :
               delivered[r][i].error.tag # "GenInvariantError"
        /\ pc[r] # "caught"

\* C13: invoking a step that needs the Runtime Handle against an Environment
\* without one throws InvalidRuntime; no Sequence yields it as a failure
\* Outcome.
C13_MissingRuntimeIsThrown ==
    \A k \in Invocations :
        \A i \in 1..Len(inv[k].outs) :
            inv[k].outs[i].error.tag # "InvalidRuntime"

\* The Sequence k was driven until it ended or threw.
Completed(k) == inv[k].st \in {"ended", "faulted"}

\* Every step of the chain gives one Outcome at most.
SingleValued ==
    \A i \in 1..Len(chain) : Len(StepSeq(chain[i], hasRuntime).outs) <= 1

\* C14: over the same chain and Environment, a Sequence of the gen composite
\* and a Sequence of the flatMap composite, both driven to their end, gave
\* the same Outcomes in the same order (here for steps that give one
\* Outcome at most, and an Environment with its Runtime Handle).
C14_GenEqualsFlatMap ==
    \A j, k \in Invocations :
        (/\ SingleValued /\ hasRuntime
         /\ inv[j].kind = "gen" /\ inv[k].kind = "flat"
         /\ Completed(j) /\ Completed(k)) =>
            /\ inv[j].outs = inv[k].outs
            /\ inv[j].fault = inv[k].fault

\* C15: two Sequences of the same composite against the same Environment,
\* both driven to their end, gave equal Outcome sequences (the Environment
\* carrying its Runtime Handle).
C15_Reinvocable ==
    \A j, k \in Invocations :
        (/\ hasRuntime
         /\ inv[j].kind = inv[k].kind
         /\ Completed(j) /\ Completed(k)) =>
            /\ inv[j].outs = inv[k].outs
            /\ inv[j].fault = inv[k].fault

\* C16: user code of a composite has run only if a Sequence of that
\* composite has been pulled.
C16_Lazy ==
    \A c \in worked :
        \E k \in Invocations : inv[k].kind = c /\ inv[k].log # <<>>

\* C17: in a Sequence of the flatMap composite nothing follows a yielded
\* failure (no Outcome is yielded, no continuation called, no step
\* invoked or iterated), the pull after it ends the Sequence, and when the
\* first Outcome of the first step is a failure no continuation is called.
C17_FlatMapFailFast ==
    \A k \in Invocations :
        inv[k].kind = "flat" =>
            LET l == inv[k].log IN
            /\ \A i, j \in 1..Len(l) :
                   (i < j /\ l[i].e = "yield" /\ ~l[i].out.ok) =>
                       /\ l[j].e = "pull"
                       /\ j = i + 1
                       /\ inv[k].st = "ended"
            /\ (/\ Len(chain) > 0
                /\ StepSeq(chain[1], hasRuntime).outs # <<>>
                /\ ~StepSeq(chain[1], hasRuntime).outs[1].ok) =>
                   \A j \in 1..Len(l) : l[j].e # "call"

\* A failure of the spliced Effect ended the composite while the source had
\* more to give.
C17_Witness ==
    /\ Len(chain) >= 2
    /\ Len(StepSeq(chain[1], hasRuntime).outs) >= 2
    /\ inv[1].kind = "flat"
    /\ inv[1].st = "ended"
    /\ inv[1].outs # <<>>
    /\ ~inv[1].outs[Len(inv[1].outs)].ok
    /\ \E j \in 1..Len(inv[1].log) : inv[1].log[j].e = "call"
    /\ inv[1].frames[1].pos = 1

\* C18: in every Sequence of a composite, step N+1 is invoked only after
\* step N gave a success, and never once step N gave a failure.
C18_StrictlySequential ==
    \A k \in Invocations :
        LET l == inv[k].log IN
        \A j \in 1..Len(l) :
            (l[j].e = "invoke" /\ l[j].step > 1) =>
                /\ \E i \in 1..(j - 1) :
                       l[i].e = "res" /\ l[i].step = l[j].step - 1 /\ l[i].out.ok
                /\ \A i \in 1..(j - 1) :
                       (l[i].e = "res" /\ l[i].step = l[j].step - 1) => l[i].out.ok

\* C19: a Sequence of the gen composite in which a step gave a second
\* success threw GenInvariantError and yielded no success Outcome.
C19_SecondValueAbortsAll ==
    \A k \in Invocations :
        (inv[k].kind = "gen" /\ inv[k].fault = GenInvariantError) =>
            \A i \in 1..Len(inv[k].outs) : ~inv[k].outs[i].ok

\* C20: a Sequence of the gen composite yields one Outcome at most, and one
\* exactly when the procedure completed.
C20_SingleOutcome ==
    \A k \in Invocations :
        inv[k].kind = "gen" =>
            /\ Len(inv[k].outs) <= 1
            /\ (inv[k].st = "ended" /\ genIt.done /\
                  \E j \in 1..Len(inv[k].log) : inv[k].log[j].e = "resume") =>
                   Len(inv[k].outs) = 1

\* C21: a fault the procedure throws when it is started, or when it is
\* resumed with a step's value, becomes a failure Outcome of the composite
\* that carries the thrown value: the Sequence throws nothing, its last
\* Outcome is that failure, and no step is invoked after the throw.
C21_FaultBecomesFailure ==
    \A k \in Sequences :
        LET s == seqs[k] IN
        /\ (s.st = "ended" /\ genOp.kind = "err") =>
               (s.outs = <<Err(genOp.error)>> /\ s.fault = NoError /\ s.log = <<>>)
        /\ \A j \in 1..Len(s.log) :
               s.log[j].e = "throw" =>
                   /\ j = Len(s.log)
                   /\ s.fault = NoError
                   /\ s.outs # <<>>
                   /\ s.outs[Len(s.outs)] = s.log[j].out

\* A Sequence in which the procedure threw when it was resumed with a step's
\* value, and the thrown value was yielded as a failure.
C21_Witness ==
    \E k \in Sequences :
        /\ seqs[k].log # <<>>
        /\ seqs[k].log[Len(seqs[k].log)].e = "throw"
        /\ seqs[k].log[Len(seqs[k].log)].out = Err(BodyError)
        /\ body.throwAt >= 1

\* C22: once the handle is aborted during a bulk iteration, the Effect
\* yields nothing more: no success Outcome and no failure Outcome follows
\* the abort, and the Outcomes yielded before it stay as they were.
C22_AbortStopsIteration ==
    bulkSeq.aborted => bulkSeq.outs = bulkSeq.before

\* C23: two interleaved Runner invocations keep their resolver state and
\* their handles apart: a step changes the cache, the in-progress set, the
\* resolved Environment and the handle of one invocation at most, a cache
\* only grows when a runFactory call of its own invocation returns, and an
\* invocation that resolved holds every key of the registry in its own
\* cache.
Private(r) == <<cache[r], stack[r], res[r], rt[r]>>

C24_ResolverDeterministic ==
    \A r \in Runs, q \in Runs :
        (/\ ReadsRegistered
         /\ mode[r] = "resolve" /\ mode[q] = "resolve"
         /\ build[r] = build[q] /\ keys[r] = keys[q]
         /\ Resolved(r) /\ Resolved(q)) =>
            /\ DOMAIN res[r].env = DOMAIN res[q].env
            /\ \A k \in DOMAIN res[r].env : res[r].env[k] = res[q].env[k]

\* C25: facade.method(args) and flatMap(svc => svc.method(args))(askFor(key))
\* give the same Outcomes for a method that returns an Effect: every
\* Sequence of the facade's Effect yields what the Sequence of the
\* hand-written composite yields, and throws what it throws.
C25_FacadeEqualsManual ==
    \A k \in Sequences :
        (/\ member.kind = "method" /\ member.returns = "effect"
         /\ seqs[k].st = "ended" /\ manual.st = "ended") =>
            (seqs[k].outs = manual.outs /\ seqs[k].fault = manual.fault)

\* C26: facade.member(args) yields (a) the Outcomes of the member when the
\* member is an Effect, (b) the Outcomes of the Effect the member returns
\* when it is a plain function, or success(result) when it returns a plain
\* value.
C26_FacadeDispatch ==
    \A k \in Sequences :
        seqs[k].st = "ended" =>
            CASE member.kind = "effect" ->
                     (seqs[k].outs = member.effect.outs /\
                      seqs[k].fault = member.effect.fault)
              [] member.kind = "method" /\ member.returns = "effect" ->
                     (seqs[k].outs = member.effect.outs /\
                      seqs[k].fault = member.effect.fault)
              [] member.kind = "method" /\ member.returns = "value" ->
                     (seqs[k].outs = <<Ok(member.value)>> /\
                      seqs[k].fault = NoError)
              [] OTHER -> TRUE

\* C27: calling a facade member that is no function gives a failure Outcome
\* naming the member: the Sequence throws nothing and yields that failure
\* and no success.
C27_NotCallableFails ==
    \A k \in Sequences :
        (seqs[k].st = "ended" /\ member.kind = "number") =>
            (seqs[k].outs = <<Err(NotAFunctionError)>> /\ seqs[k].fault = NoError)

\* The position of the first failure in outs, or Len(outs) + 1.
RECURSIVE FirstFailure(_, _)
FirstFailure(outs, i) ==
    IF i > Len(outs) \/ ~outs[i].ok THEN i ELSE FirstFailure(outs, i + 1)

\* The Outcomes of outs up to and including its first failure.
Spliced(outs) ==
    SubSeq(outs, 1, IF FirstFailure(outs, 1) > Len(outs) THEN Len(outs)
                    ELSE FirstFailure(outs, 1))

C29_MapTransformsSuccess ==
    LET a == applied["map"]
        sub == Spliced(source.outs)
    IN a.st = "ended" =>
        /\ Len(a.outs) = Len(sub)
        /\ \A j \in 1..Len(sub) :
               a.outs[j] = IF sub[j].ok THEN Ok(Double(sub[j].value)) ELSE sub[j]
        /\ Len(a.calls) = Len(SelectSeq(sub, LAMBDA o : o.ok))
        /\ (source.outs # <<>> /\ ~source.outs[1].ok) => a.calls = <<>>

\* map ran over a source that succeeded with v and then failed.
C29_Witness ==
    /\ applied["map"].st = "ended"
    /\ Len(source.outs) > 1 /\ source.outs[1].ok /\ ~source.outs[2].ok
    /\ applied["map"].outs = <<Ok(Double(source.outs[1].value)), source.outs[2]>>
    /\ applied["map"].outs[1] # source.outs[1]

\* C30: mapErr(f) turns each failure of the source into failure(f(error)) and
\* hands each success on unchanged: its Sequence holds as many Outcomes as the
\* source's, in the same order.
C30_MapErrPreserves ==
    LET a == applied["mapErr"] IN
    a.st = "ended" =>
        /\ Len(a.outs) = Len(source.outs)
        /\ \A j \in 1..Len(a.outs) :
               a.outs[j] = IF source.outs[j].ok THEN source.outs[j]
                           ELSE Err(UpperCase(source.outs[j].error))


\* C31: tap(fn) calls fn once for each success Outcome of the source, with
\* its value and in order, and never for a failure; tapErr(fn) calls fn once
\* for each failure Outcome, with its error, and never for a success; the
\* Sequence of either holds the source's Outcomes unchanged.
C31_TapObserves ==
    LET t == applied["tap"]
        te == applied["tapErr"]
        oks == SelectSeq(source.outs, LAMBDA o : o.ok)
        errs == SelectSeq(source.outs, LAMBDA o : ~o.ok)
    IN /\ t.st = "ended" =>
              /\ t.outs = source.outs
              /\ t.calls = [j \in 1..Len(oks) |-> oks[j].value]
       /\ te.st = "ended" =>
              /\ te.outs = source.outs
              /\ te.calls = [j \in 1..Len(errs) |-> errs[j].error]

\* No key stands twice among the properties of obj.
NoDuplicate(obj) ==
    \A a, b \in 1..Len(obj) : a # b => obj[a].key # obj[b].key

\* C32: provide(key, factory)(registry) makes a new Registry that holds
\* key -> factory and, for every other key, what the input holds, with no key
\* twice; every Registry made before, the input included, keeps its entries.
C32_ProvidePure ==
    [][\A i \in 1..Len(contexts), key \in Keys, operation \in ProvidedOps :
          Provide(i, key, operation) =>
              LET new == contexts'[Len(contexts')] IN
              /\ Len(contexts') = Len(contexts) + 1
              /\ \A j \in 1..Len(contexts) : contexts'[j] = contexts[j]
              /\ HasKey(new, key) /\ Lookup(new, key) = operation
              /\ NoDuplicate(new)
              /\ \A k \in Keys \ {key} :
                     /\ HasKey(new, k) <=> HasKey(contexts[i], k)
                     /\ HasKey(new, k) => Lookup(new, k) = Lookup(contexts[i], k)
      ]_vars

\* A Registry was derived from an earlier one by replacing the factory of a
\* key the earlier one holds, and a third one derived from the earlier one
\* after that still holds the first factory.
C32_Witness ==
    \E i, j, l \in 1..Len(contexts) : \E k \in Keys :
        /\ i < j /\ j < l
        /\ HasKey(contexts[i], k) /\ HasKey(contexts[j], k)
        /\ HasKey(contexts[l], k)
        /\ Lookup(contexts[j], k) # Lookup(contexts[i], k)
        /\ Lookup(contexts[l], k) = Lookup(contexts[i], k)
        /\ Len(contexts[l]) > Len(contexts[i])

\* C33: in a resolution run no key is both cached and in progress; a cached
\* key stays cached with the value it has, and no attempt of its factory is
\* started afterwards in that run.
C33_ResolverStates ==
    /\ [](\A r \in Runs : \A k \in DOMAIN cache[r] : ~InSeq(stack[r], k))
    /\ [][\A r \in Runs : \A k \in DOMAIN cache[r] :
              /\ k \in DOMAIN cache'[r]
              /\ cache'[r][k] = cache[r][k]
              /\ ~(Attempt(r) /\ Top(r).key = k)]_vars

\* A factory was restarted after a dependency it read was cached: one key is
\* cached while another is in progress.
C33_Witness ==
    \E r \in Runs :
        /\ DOMAIN cache[r] # {}
        /\ stack[r] # <<>>
        /\ frames[r] # <<>> /\ Top(r).restarted /\ Top(r).pc = "attempt"

\* C34: over a registry whose reads form no cycle, the factory of each key is
\* started at most once for each distinct registered key a pass threw, plus
\* once, and at most as many times as the registry holds keys.
C34_AttemptBound ==
    \A r \in Runs : ~Cyclic =>
        \A k \in DOMAIN services :
            /\ attempts[r][k].n <= Cardinality(attempts[r][k].missed) + 1
            /\ attempts[r][k].n <= Cardinality(DOMAIN services)

\* C35: whatever passes of a gen factory were abandoned or completed, the
\* value its procedure received at its i-th resumption is the success value
\* of the i-th step it requested: the cached value of the i-th key it reads
\* (the factories reading registered keys only).
C35_GenValueRouting ==
    \A r \in Runs : \A k \in DOMAIN services :
        (ReadsRegistered /\ services[k].kind = "gen") =>
            LET it == its[build[r]][k]
                reads == services[k].reads
            IN \A i \in 1..Len(it.recv) :
                   (i <= Len(reads) /\ reads[i] \in DOMAIN cache[r]) =>
                       it.recv[i] = cache[r][reads[i]]

\* C36: a key enters the cache only when every registered key its factory
\* read in the completing pass is cached already, so that at every point the
\* cached keys are closed under "read in its completing pass".
C36_DependenciesFirst ==
    /\ [](\A r \in Runs : \A k \in DOMAIN cache[r] :
             (attempts[r][k].read \cap DOMAIN services) \subseteq DOMAIN cache[r])
    /\ [][\A r \in Runs : \A k \in DOMAIN cache'[r] \ DOMAIN cache[r] :
              /\ Attempt(r) /\ Top(r).key = k
              /\ (attempts'[r][k].read \cap DOMAIN services)
                     \subseteq DOMAIN cache[r]]_vars

\* A key is cached whose factory read another registered key in its
\* completing pass, after an earlier pass that threw that key.
C36_Witness ==
    \E r \in Runs : \E k \in DOMAIN cache[r] :
        /\ attempts[r][k].read \cap DOMAIN services # {}
        /\ attempts[r][k].missed # {}
        /\ attempts[r][k].n > 1

\* The failure Outcome the pass of the restart loop that run r is about to
\* make will meet, if any.
FactoryFailure(r) ==
    LET key == Top(r).key
        run == FactoryRun(services, key, its[build[r]][key], cache[r])
    IN IF FailIdx(run.outs) = 0 THEN NoError
       ELSE run.outs[FailIdx(run.outs)].error

\* C37: when a factory yields a failure Outcome with error e, the resolution
\* ends there with the single Outcome failure(e); after a resolution ended
\* in failure no factory is started and the target is not invoked.
C37_FactoryFailureEnds ==
    /\ [](\A r \in Runs : res[r].state = "err" =>
             frames[r] = <<>> /\ tpos[r] = 0 /\ pc[r] # "target")
    /\ [][\A r \in Runs :
              /\ (Attempt(r) /\ FactoryFailure(r) # NoError) =>
                     /\ res'[r] = [state |-> "err", env |-> <<>>,
                                   error |-> FactoryFailure(r)]
                     /\ delivered'[r] = <<Err(FactoryFailure(r))>>
              /\ res[r].state = "err" => ~Attempt(r)]_vars

\* C38: from the start of resolution until the stream generator completes,
\* the handle's signal is not aborted: the handle is live while the generator
\* is resolving, pulling the target, suspended at a yield or in its catch,
\* and aborted only once the generator completed (no Effect of the model
\* aborts the handle).
C38_NoEarlyAbort ==
    \A r \in Runs :
        /\ pc[r] \in {"resolving", "target", "yielded", "caught"} =>
               rt[r] = "live"
        /\ rt[r] = "aborted" => pc[r] = "done"

\* A resolution with a restart ended, the target gave a first Outcome to
\* the caller and has more to give: the handle is live.
C38_Witness ==
    \E r \in Runs :
        /\ pc[r] = "yielded"
        /\ rt[r] = "live"
        /\ Resolved(r)
        /\ \E k \in DOMAIN services : attempts[r][k].n > 1
        /\ 0 < tpos[r] /\ tpos[r] < Len(op.outs)

\* C39: a key is cached with the value of a success Outcome that its factory
\* yielded in the completing pass; a resolution does not succeed with a key
\* whose factory yielded no success.
C39_CachedValueProduced ==
    \A r \in Runs :
        /\ \A k \in DOMAIN cache[r] : cache[r][k] \in attempts[r][k].values
        /\ Resolved(r) =>
               \A k \in DOMAIN res[r].env : attempts[r][k].values # {}

====
